---- MODULE Spec2Model ----
(***************************************************************************)
(* The search-step coordination engine of                                  *)
(* nemo_aligner/utils/deep_search/text_gen_utils.py: search() and          *)
(* sample_sequence_batch(), run by every rank of one model-parallel group. *)
(* One process per rank; the ranks share only the request scatter and the  *)
(* result broadcasts.  Every rank holds its own replica of the TreeStore.  *)
(***************************************************************************)
EXTENDS Integers, Sequences, FiniteSets, TLC

(* ------------------------------ bounds -------------------------------- *)
MaxRanks == 2          \* ranks of the model-parallel group: pp * tp <= MaxRanks
MaxSessions == 2       \* session ids 1..MaxSessions; also the largest batch
VocabSize == 2         \* tokenizer.vocab_size: real vocabulary ids 0..VocabSize-1
EncoderSeqLength == 2  \* the sequence length behind clip_max_len
MaxRequests == 2       \* search() calls per behaviour
MaxGenLength == 2      \* max_length of a generation is 1..MaxGenLength
MaxSentenceLen == 2    \* characters of a sentence given to tokenize_batch

PaddedVocabSize == VocabSize + 1      \* width of the gathered logits
MaxTopK == PaddedVocabSize + 1        \* the largest top_k requested
MaxPromptLen == EncoderSeqLength + 1  \* longest tokenized prompt

(* ----------------------------- sentinels ------------------------------ *)
NegInf == -1           \* -float("Inf"); finite logits are >= 0
RootAction == -1       \* the action of a root node
Uninit == -7           \* an element of an allocated, never written tensor
NaN == -9              \* softmax of a row of -inf
ProbScale == 120       \* probabilities are fixed point: p * ProbScale
NumLogitLevels == 3    \* finite logits are 0..NumLogitLevels-1
EosId == 1             \* tokenizer.eos_id, the pad id of tokenize_batch
BosId == 0             \* tokenizer.bos_id

Sessions == 1..MaxSessions
NoParent == <<>>

(* ------------------------------ helpers ------------------------------- *)
Min2(a, b) == IF a <= b THEN a ELSE b
SeqMin(s) == CHOOSE x \in {s[i] : i \in DOMAIN s} : \A i \in DOMAIN s : x <= s[i]
SeqMax(s) == CHOOSE x \in {s[i] : i \in DOMAIN s} : \A i \in DOMAIN s : x >= s[i]

RECURSIVE SeqSum(_)
SeqSum(s) == IF s = <<>> THEN 0 ELSE Head(s) + SeqSum(Tail(s))

RECURSIVE Pow2(_)
Pow2(n) == IF n <= 0 THEN 1 ELSE 2 * Pow2(n - 1)

\* pad_batch as the strategy's tokenize_batch applies it: every row is
\* extended with the pad id to the longest row.
PadRow(row, width) == [k \in 1..width |-> IF k <= Len(row) THEN row[k] ELSE EosId]

(* --------------------------- the model output -------------------------- *)
\* forward_step: the logits of the last position are a fixed function (the
\* weights) of the token window the step was fed, tokens[:, :cursor].
ForwardLogits(row, cursor) ==
    LET n == Min2(cursor, Len(row))
        s == SeqSum(SubSeq(row, 1, n))
    IN [v \in 0..(PaddedVocabSize - 1) |-> (s + v * (1 + cursor)) % NumLogitLevels]

\* mutant of MaskPadding: the padding slots keep their logits
MaskPadding_none(lg) == lg

\* logits[:, tokenizer.vocab_size:] = -float("Inf")
MaskPadding(lg) == [v \in DOMAIN lg |-> IF v >= VocabSize THEN NegInf ELSE lg[v]]

\* torch.topk: the k largest entries, largest first; among equal entries the
\* lower index first.
RECURSIVE TopKIdx(_, _, _)
TopKIdx(lg, k, chosen) ==
    IF k = 0 THEN <<>>
    ELSE LET cand == (DOMAIN lg) \ chosen
             best == CHOOSE v \in cand :
                        \A w \in cand : lg[v] > lg[w] \/ (lg[v] = lg[w] /\ v <= w)
         IN <<best>> \o TopKIdx(lg, k - 1, chosen \cup {best})

\* mutant of TopK: the k smallest entries (largest=False)
RECURSIVE BottomKIdx(_, _, _)
BottomKIdx(lg, k, chosen) ==
    IF k = 0 THEN <<>>
    ELSE LET cand == (DOMAIN lg) \ chosen
             best == CHOOSE v \in cand :
                        \A w \in cand : lg[v] < lg[w] \/ (lg[v] = lg[w] /\ v <= w)
         IN <<best>> \o BottomKIdx(lg, k - 1, chosen \cup {best})
TopK_smallest(lg, k) ==
    LET idx == BottomKIdx(lg, k, {})
    IN [values |-> [j \in 1..k |-> lg[idx[j]]], indices |-> idx]

TopK(lg, k) ==
    LET idx == TopKIdx(lg, k, {})
    IN [values |-> [j \in 1..k |-> lg[idx[j]]], indices |-> idx]

\* F.softmax over the selected logits, base 2 in fixed point.
ExpWeight(l) == IF l = NegInf THEN 0 ELSE Pow2(l)
Softmax(vals) ==
    LET total == SeqSum([j \in DOMAIN vals |-> ExpWeight(vals[j])])
    IN [j \in DOMAIN vals |->
           IF total = 0 THEN NaN ELSE (ExpWeight(vals[j]) * ProbScale) \div total]

(* ------------------------------ TreeStore ------------------------------ *)
\* A store is a set of nodes; a node is identified by (session, depth, action).
Key(s, d, a) == <<s, d, a>>
NodeKey(n) == Key(n.session, n.depth, n.action)
HasNode(store, k) == \E n \in store : NodeKey(n) = k
\* get_node
GetNode(store, k) == CHOOSE n \in store : NodeKey(n) = k

\* save_kv_cache: one node per batch row under (sessions[i], depths[i],
\* actions[i]).  A key that is present with the same payload is left alone; a
\* key that is present with another payload is a DuplicateNodeError and
\* nothing is written.
NewNodes(sessions, depths, lens, parents, actions, tokens) ==
    { [session |-> sessions[i], depth |-> depths[i], action |-> actions[i],
       parent |-> parents[i], ctxlen |-> lens[i], tokens |-> tokens[i]]
      : i \in DOMAIN sessions }
\* mutant of SaveConflict: a save never conflicts
SaveConflict_never(store, nodes) == FALSE

SaveConflict(store, nodes) ==
    \/ \E n \in nodes : \E m \in store : NodeKey(m) = NodeKey(n) /\ m # n
    \/ \E n \in nodes : \E m \in nodes : NodeKey(m) = NodeKey(n) /\ m # n
save_kv_cache(store, nodes) == store \cup nodes

(* ------------------------------- state --------------------------------- *)
VARIABLES
    topo,    \* [pp, tp]: pipeline and tensor parallel sizes of the group
    nreq,    \* search() calls made so far
    call,    \* the arguments of the current search() call (the same on every rank)
    msg,     \* what send_generate_info has put on the wire
    pc,      \* pc[r]: where rank r is in search()
    err,     \* err[r]: the exception that ended search() on rank r, or "none"
    loc,     \* loc[r]: the local variables of search()/sample_sequence_batch()
    store,   \* store[r]: rank r's TreeStore
    store0,  \* store0[r]: rank r's TreeStore when the current call was made
    hist,    \* hist[r]: what rank r has done for the current call, in order
    ret,     \* ret[r]: the Frontier search() returned on rank r
    strat,   \* strat[r]: rank r's TrackLengthGPTModelTextGenerationStrategy
    eog,     \* the last end_of_generation_condition call: arguments and outcome
    lengths, \* lengths[r]: where rank r is in get_lengths() and what it holds
    tok      \* the last tokenize_batch call: arguments and result

\* the state of the utilities of text_generation_utils.py
genvars == <<strat, eog, lengths, tok>>
\* the state of search()
searchvars == <<nreq, call, msg, pc, err, loc, store, store0, hist, ret>>
vars == <<topo, nreq, call, msg, pc, err, loc, store, store0, hist, ret, genvars>>

Ranks == 0..(topo.pp * topo.tp - 1)
\* rank = stage * tp + tensor rank; get_model_parallel_src_rank() is the
\* lowest rank of the group
Driver == 0
Stage(r) == r \div topo.tp
is_pipeline_first_stage(r) == Stage(r) = 0
is_pipeline_last_stage(r) == Stage(r) = topo.pp - 1
\* get_pipeline_model_parallel_last_rank(): the last-stage rank of r's pipeline
LastRank(r) == (topo.pp - 1) * topo.tp + (r % topo.tp)
FirstRank(r) == r % topo.tp
\* get_embedding_group(): the first- and last-stage ranks of r's pipeline
EmbeddingGroup(r) == {FirstRank(r), LastRank(r)}

Ev(name, a, b) == [ev |-> name, a |-> a, b |-> b]
Did(r, name) == \E k \in DOMAIN hist[r] : hist[r][k].ev = name
Count(r, name) == Cardinality({k \in DOMAIN hist[r] : hist[r][k].ev = name})

(* ------------------------------ requests ------------------------------- *)
GoodCfg == [sequence_parallel |-> FALSE,
            activations_checkpoint_granularity |-> "None",
            activations_checkpoint_method |-> "None"]
BadCfgs == { [GoodCfg EXCEPT !.sequence_parallel = TRUE],
             [GoodCfg EXCEPT !.activations_checkpoint_granularity = "selective"],
             [GoodCfg EXCEPT !.activations_checkpoint_method = "uniform"] }

\* a batch of B rows holds the sessions 1..B
SessionLists == { [i \in 1..B |-> i] : B \in Sessions }
Prompt(n, t) == [k \in 1..n |-> (t + k) % VocabSize]
Prompts == { Prompt(n, 0) : n \in 1..MaxPromptLen } \cup { Prompt(1, 1) }
\* top_k: the largest valid value, one that reaches into the padding slots,
\* and one beyond the width of the logits
TopKs == VocabSize..MaxTopK
\* the (depth, action) pairs a continuation row may name
ContKeys == { <<0, RootAction>>, <<1, 0>>, <<1, 1>>, <<2, 0>> }

NoCall == [strategy |-> TRUE, cfg |-> GoodCfg, hasInputs |-> FALSE, inputs |-> <<>>,
           hasAction |-> FALSE, action |-> <<>>, hasDepth |-> FALSE, depth |-> <<>>,
           sessions |-> <<>>, top_k |-> 0]

RootCall(sess, prompts, k) ==
    [NoCall EXCEPT !.hasInputs = TRUE, !.inputs = prompts, !.sessions = sess, !.top_k = k]
ContCall(sess, keys, k) ==
    [NoCall EXCEPT !.hasAction = TRUE, !.action = [i \in DOMAIN keys |-> keys[i][2]],
                   !.hasDepth = TRUE, !.depth = [i \in DOMAIN keys |-> keys[i][1]],
                   !.sessions = sess, !.top_k = k]

RootCalls(k) ==
    UNION { { RootCall(sess, p, k) : p \in [1..Len(sess) -> Prompts] }
            : sess \in SessionLists }
ContCalls(k) ==
    UNION { { ContCall(sess, keys, k) : keys \in [1..Len(sess) -> ContKeys] }
            : sess \in SessionLists }
\* both shapes at once, neither, or half of the continuation shape
MalformedCalls(k) ==
    LET root == RootCall(<<1>>, <<Prompt(1, 0)>>, k)
        cont == ContCall(<<1>>, << <<1, 0>> >>, k)
    IN { [root EXCEPT !.hasAction = TRUE, !.action = <<0>>, !.hasDepth = TRUE, !.depth = <<1>>],
         [root EXCEPT !.hasDepth = TRUE, !.depth = <<0>>],
         [root EXCEPT !.hasInputs = FALSE, !.inputs = <<>>],
         [cont EXCEPT !.hasDepth = FALSE, !.depth = <<>>] }
NoStrategyCalls(k) ==
    { [RootCall(<<1>>, <<Prompt(1, 0)>>, k) EXCEPT !.strategy = FALSE],
      [ContCall(<<1>>, << <<1, 0>> >>, k) EXCEPT !.strategy = FALSE] }
BadCfgCalls(k) ==
    { [c EXCEPT !.cfg = bad] :
        c \in { RootCall(<<1>>, <<Prompt(1, 0)>>, k), ContCall(<<1>>, << <<1, 0>> >>, k) },
        bad \in BadCfgs }
Calls(k) ==
    RootCalls(k) \cup ContCalls(k) \cup MalformedCalls(k) \cup NoStrategyCalls(k)
        \cup BadCfgCalls(k)

IsRootShape(c) == c.hasInputs /\ ~c.hasAction /\ ~c.hasDepth
IsContShape(c) == ~c.hasInputs /\ c.hasAction /\ c.hasDepth
ValidShape(c) == IsRootShape(c) \/ IsContShape(c)

NoMsg == [sent |-> FALSE, tokens |-> <<>>, lens |-> <<>>, action |-> <<>>,
          depth |-> <<>>, top_k |-> 0, sessions |-> <<>>]
NoLoc == [tokens |-> <<>>, lens |-> <<>>, action |-> <<>>, depth |-> <<>>,
          top_k |-> 0, sessions |-> <<>>, init |-> FALSE, cursor |-> 0,
          counter |-> 0, maxlen |-> 0, outA |-> <<>>, outP |-> <<>>,
          parents |-> <<>>]
NoRet == [action |-> <<>>, policy |-> <<>>]

\* no strategy constructed, no call made yet
NoStrategy == [made |-> FALSE, context_lengths |-> <<>>, max_length |-> 0, end_idx |-> <<>>]
NoEog == [made |-> FALSE, rank |-> 0, batch |-> 0, width |-> 0, is_end |-> <<>>,
          before |-> <<>>, raised |-> "none", returned |-> <<>>]
NoLengths == [at |-> "idle", value |-> <<>>]
NoTok == [made |-> FALSE, sentences |-> <<>>, max_len |-> 0, add_BOS |-> FALSE,
          add_EOS |-> FALSE, tokens |-> <<>>, context_lengths |-> <<>>, exceeded |-> <<>>]

Topologies ==
    { [pp |-> p, tp |-> t] : p \in 1..MaxRanks, t \in 1..MaxRanks }
TopologiesInBound == { x \in Topologies : x.pp * x.tp <= MaxRanks }

Init ==
    /\ topo \in TopologiesInBound
    /\ nreq = 0
    /\ call = NoCall
    /\ msg = NoMsg
    /\ pc = [r \in Ranks |-> "AwaitingRequest"]
    /\ err = [r \in Ranks |-> "none"]
    /\ loc = [r \in Ranks |-> NoLoc]
    /\ store = [r \in Ranks |-> {}]
    /\ store0 = [r \in Ranks |-> {}]
    /\ hist = [r \in Ranks |-> <<>>]
    /\ ret = [r \in Ranks |-> NoRet]
    /\ strat = [r \in Ranks |-> NoStrategy]
    /\ eog = NoEog
    /\ lengths = [r \in Ranks |-> NoLengths]
    /\ tok = NoTok

\* search() has returned or raised on every rank: the caller may call again
Quiescent == \A r \in Ranks : pc[r] \in {"AwaitingRequest", "Done", "Error"}

\* Every rank calls search() with the same arguments; the caller searches
\* with one top_k throughout.
NewRequest ==
    /\ Quiescent
    /\ nreq < MaxRequests
    /\ \E k \in (IF nreq = 0 THEN TopKs ELSE {call.top_k}) :
         \E c \in Calls(k) : call' = c
    /\ nreq' = nreq + 1
    /\ msg' = NoMsg
    /\ pc' = [r \in Ranks |-> "Scatter"]
    /\ err' = [r \in Ranks |-> "none"]
    /\ loc' = [r \in Ranks |-> NoLoc]
    /\ hist' = [r \in Ranks |-> <<>>]
    /\ ret' = [r \in Ranks |-> NoRet]
    /\ store0' = store
    /\ UNCHANGED <<genvars, topo, store>>

\* an exception leaves search() on rank r
Raise(r, e) ==
    /\ pc' = [pc EXCEPT ![r] = "Error"]
    /\ err' = [err EXCEPT ![r] = e]

(* ------------------------- uninitialised tensors ------------------------ *)
\* torch.cuda.IntTensor(n, m) allocates without writing: what the elements
\* hold is whatever the allocator hands out.  An element that nobody has read
\* yet is kept as Uninit; when code reads the tensor its content is drawn
\* from UninitFills and stays what was drawn.
UninitInts == {0, PaddedVocabSize}
Fresh(n, m) == [i \in 1..n |-> [j \in 1..m |-> Uninit]]
FreshVec(n) == [i \in 1..n |-> Uninit]
UninitFills(n, m) == { [i \in 1..n |-> [j \in 1..m |-> g]] : g \in UninitInts }
UninitVecFills(n) == { [i \in 1..n |-> g] : g \in UninitInts }
Resolve(t, fill) ==
    [i \in DOMAIN t |-> [j \in DOMAIN t[i] |->
        IF t[i][j] = Uninit THEN fill[i][j] ELSE t[i][j]]]

(* ------------------------------ search() ------------------------------- *)
\* inference_strategy.tokenize_batch(inputs, 0, False)
tokenize_batch(inputs) ==
    LET width == SeqMax([i \in DOMAIN inputs |-> Len(inputs[i])])
    IN [tokens |-> [i \in DOMAIN inputs |-> PadRow(inputs[i], width)],
        lens |-> [i \in DOMAIN inputs |-> Len(inputs[i])]]

\* lines 128-154: what the driving rank builds from the arguments.  The
\* tensors of the continuation branch are allocated and never written; they
\* are read only when the request then takes the init path (depth[0] == 0).
SendPayloads(c) ==
    IF ~c.hasInputs
    THEN LET B == Len(c.action)
             read == c.depth[1] = 0
         IN { [sent |-> TRUE, tokens |-> t, lens |-> l, action |-> c.action,
               depth |-> c.depth, top_k |-> c.top_k, sessions |-> c.sessions]
              : t \in (IF read THEN UninitFills(B, 1) ELSE {Fresh(B, 1)}),
                l \in (IF read THEN UninitVecFills(B) ELSE {FreshVec(B)}) }
    ELSE LET tk == tokenize_batch(c.inputs)
             B == Len(tk.tokens)
         IN { [sent |-> TRUE, tokens |-> tk.tokens, lens |-> tk.lens,
               action |-> [i \in 1..B |-> 0], depth |-> [i \in 1..B |-> 0],
               top_k |-> c.top_k, sessions |-> c.sessions] }

\* mutant of ShapeAsserts: the asserts of the inputs branch are missing
ShapeAsserts_noRootAsserts(c) ==
    IF ~c.hasInputs THEN c.hasAction /\ c.hasDepth
    ELSE TRUE

\* the asserts of lines 130-131 and 145-146
ShapeAsserts(c) ==
    IF ~c.hasInputs THEN c.hasAction /\ c.hasDepth
    ELSE ~c.hasAction /\ ~c.hasDepth

FromMsg(m) ==
    [NoLoc EXCEPT !.tokens = m.tokens, !.lens = m.lens, !.action = m.action,
                  !.depth = m.depth, !.top_k = m.top_k, !.sessions = m.sessions]

\* mutant of SearchSend: the driving rank does not look for the strategy
SearchSend_noStrategyCheck(r) ==
    /\ pc[r] = "Scatter"
    /\ r = Driver
    /\ IF ~ShapeAsserts(call)
       THEN /\ Raise(r, "AssertionError")
            /\ UNCHANGED <<msg, loc, hist>>
       ELSE /\ \E m \in SendPayloads(call) :
                 /\ msg' = m
                 /\ loc' = [loc EXCEPT ![r] = FromMsg(m)]
            /\ hist' = [hist EXCEPT ![r] = Append(@, Ev("send", 0, 0))]
            /\ pc' = [pc EXCEPT ![r] = "Classifying"]
            /\ UNCHANGED err
    /\ UNCHANGED <<genvars, topo, nreq, call, store, store0, ret>>

\* lines 122-165 on the driving rank
SearchSend(r) ==
    /\ pc[r] = "Scatter"
    /\ r = Driver
    /\ IF ~call.strategy
       THEN /\ Raise(r, "ValueError")
            /\ UNCHANGED <<msg, loc, hist>>
       ELSE IF ~ShapeAsserts(call)
       THEN /\ Raise(r, "AssertionError")
            /\ UNCHANGED <<msg, loc, hist>>
       ELSE /\ \E m \in SendPayloads(call) :
                 /\ msg' = m
                 /\ loc' = [loc EXCEPT ![r] = FromMsg(m)]
            /\ hist' = [hist EXCEPT ![r] = Append(@, Ev("send", 0, 0))]
            /\ pc' = [pc EXCEPT ![r] = "Classifying"]
            /\ UNCHANGED err
    /\ UNCHANGED <<genvars, topo, nreq, call, store, store0, ret>>

\* lines 122-126 and 166-176 on every other rank: receive_generate_info()
\* returns once the driving rank has sent
SearchReceive(r) ==
    /\ pc[r] = "Scatter"
    /\ r # Driver
    /\ IF ~call.strategy
       THEN /\ Raise(r, "ValueError")
            /\ UNCHANGED <<loc, hist>>
       ELSE /\ msg.sent
            /\ loc' = [loc EXCEPT ![r] = FromMsg(msg)]
            /\ hist' = [hist EXCEPT ![r] = Append(@, Ev("recv", 0, 0))]
            /\ pc' = [pc EXCEPT ![r] = "Classifying"]
            /\ UNCHANGED err
    /\ UNCHANGED <<genvars, topo, nreq, call, msg, store, store0, ret>>

\* init = depth[0].item() == 0
InitFlag(depth) == depth[1] = 0

\* inference_strategy.compute_inference_params(sessions, depth, action): looks
\* every (session, depth, action) up and recovers its context
ParamsFound(st, l) ==
    \A i \in DOMAIN l.sessions : HasNode(st, Key(l.sessions[i], l.depth[i], l.action[i]))
compute_inference_params(st, l) ==
    [tokens |-> [i \in DOMAIN l.sessions |-> <<l.action[i]>>],
     lens |-> [i \in DOMAIN l.sessions |->
                 GetNode(st, Key(l.sessions[i], l.depth[i], l.action[i])).ctxlen]]

\* inference_strategy.clip_max_len(maxlen)
clip_max_len(maxlen) ==
    IF maxlen > EncoderSeqLength + 1 THEN EncoderSeqLength + 1 ELSE maxlen

\* mutant of ConfigAsserts: the sequence_parallel assert is missing
ConfigAsserts_noSequenceParallel(cfg) ==
    /\ cfg.activations_checkpoint_granularity = "None"
    /\ cfg.activations_checkpoint_method = "None"

\* the three asserts of lines 231-239
ConfigAsserts(cfg) ==
    /\ cfg.sequence_parallel = FALSE
    /\ cfg.activations_checkpoint_granularity = "None"
    /\ cfg.activations_checkpoint_method = "None"

\* lines 245-259: the cursor, the bounds and the output tensors
LoopSetup(l, init) ==
    [l EXCEPT !.init = init,
              !.cursor = SeqMin(l.lens),
              !.counter = 0,
              !.maxlen = clip_max_len(1 + SeqMax(l.lens)),
              !.outA = Fresh(Len(l.tokens), l.top_k),
              !.outP = Fresh(Len(l.tokens), l.top_k)]

\* lines 179-183 and the entry of sample_sequence_batch, lines 222-259
Classify(r) ==
    /\ pc[r] = "Classifying"
    /\ LET init == InitFlag(loc[r].depth)
           found == ParamsFound(store[r], loc[r])
           l1 == IF init \/ ~found THEN loc[r]
                 ELSE LET p == compute_inference_params(store[r], loc[r])
                      IN [loc[r] EXCEPT !.tokens = p.tokens, !.lens = p.lens]
       IN IF ~init /\ ~found
          THEN /\ Raise(r, "NotFoundError")
               /\ UNCHANGED <<loc, hist>>
          ELSE IF ~ConfigAsserts(call.cfg)
          THEN /\ Raise(r, "AssertionError")
               /\ hist' = [hist EXCEPT ![r] =
                             Append(@, Ev(IF init THEN "init" ELSE "params", 0, 0))]
               /\ loc' = [loc EXCEPT ![r] = l1]
          ELSE /\ loc' = [loc EXCEPT ![r] = LoopSetup(l1, init)]
               /\ hist' = [hist EXCEPT ![r] =
                             Append(@, Ev(IF init THEN "init" ELSE "params", 0, 0))]
               /\ pc' = [pc EXCEPT ![r] = "Decoding"]
               /\ UNCHANGED err
    /\ UNCHANGED <<genvars, topo, nreq, call, msg, store, store0, ret>>

(* ----------------------- sample_sequence_batch() ------------------------ *)
\* lines 272-281 for one batch row: the masked logits, their top-k and its softmax
RowFrontier(row, cursor, k) ==
    LET tk == TopK(MaskPadding(ForwardLogits(row, cursor)), k)
    IN [actions |-> tk.indices, probs |-> Softmax(tk.values)]

\* batch_update_indicator = context_lengths == context_length
batch_update_indicator(lens, cursor) == [i \in DOMAIN lens |-> lens[i] = cursor]

\* lines 283-285: the rows the indicator selects are overwritten
UpdateRows(out, new, ind) == [i \in DOMAIN out |-> IF ind[i] THEN new[i] ELSE out[i]]

WriteEvents(lens, cursor) ==
    SelectSeq([i \in DOMAIN lens |-> Ev("write", i, cursor)],
              LAMBDA e : lens[e.a] = cursor)

\* mutant of StepEvents: forward_step is called whatever init is
StepEvents_alwaysForward(l) ==
    <<Ev("prep", l.cursor, l.counter), Ev("fwd", l.cursor, l.counter)>>

\* lines 262-269: prepare_batch_at_step, then forward_step on an init pass
StepEvents(l) ==
    <<Ev("prep", l.cursor, l.counter)>> \o
    (IF l.init THEN <<Ev("fwd", l.cursor, l.counter)>> ELSE <<>>)

\* one iteration of the loop of lines 261-288
DecodeIter(r) ==
    /\ pc[r] = "Decoding"
    /\ loc[r].cursor < loc[r].maxlen
    /\ LET l == loc[r]
           B == Len(l.tokens)
       IN IF ~is_pipeline_last_stage(r)
          THEN /\ loc' = [loc EXCEPT ![r].cursor = @ + 1, ![r].counter = @ + 1]
               /\ hist' = [hist EXCEPT ![r] = @ \o StepEvents(l)]
               /\ UNCHANGED <<pc, err>>
          ELSE IF ~l.init
          \* output = None; output[0]["logits"]
          THEN /\ Raise(r, "TypeError")
               /\ hist' = [hist EXCEPT ![r] = @ \o StepEvents(l)]
               /\ UNCHANGED loc
          ELSE IF l.top_k > PaddedVocabSize
          \* torch.topk(logits, top_k) with top_k beyond the last dimension
          THEN /\ Raise(r, "RuntimeError")
               /\ hist' = [hist EXCEPT ![r] = @ \o StepEvents(l)]
               /\ UNCHANGED loc
          ELSE LET f == [i \in 1..B |-> RowFrontier(l.tokens[i], l.cursor, l.top_k)]
                   ind == batch_update_indicator(l.lens, l.cursor)
               IN /\ loc' = [loc EXCEPT
                        ![r].outA = UpdateRows(@, [i \in 1..B |-> f[i].actions], ind),
                        ![r].outP = UpdateRows(@, [i \in 1..B |-> f[i].probs], ind),
                        ![r].cursor = @ + 1,
                        ![r].counter = @ + 1]
                  /\ hist' = [hist EXCEPT ![r] =
                                @ \o StepEvents(l) \o WriteEvents(l.lens, l.cursor)]
                  /\ UNCHANGED <<pc, err>>
    /\ UNCHANGED <<genvars, topo, nreq, call, msg, store, store0, ret>>

\* the context a root node keeps: the row without its padding
Context(row, len) == SubSeq(row, 1, Min2(len, Len(row)))

RootNodes(l) ==
    LET B == Len(l.tokens)
    IN NewNodes(l.sessions, l.depth, l.lens, [i \in 1..B |-> NoParent],
                [i \in 1..B |-> RootAction],
                [i \in 1..B |-> Context(l.tokens[i], l.lens[i])])

\* lines 291-302: the loop is over and the pass is an init pass; the root
\* nodes are saved, depths += 1, and the parents are looked up
PersistRoot(r) ==
    /\ pc[r] = "Decoding"
    /\ loc[r].cursor >= loc[r].maxlen
    /\ loc[r].init
    /\ LET l == loc[r]
           B == Len(l.tokens)
           nodes == RootNodes(l)
           st == save_kv_cache(store[r], nodes)
       IN IF SaveConflict(store[r], nodes)
          THEN /\ Raise(r, "DuplicateNodeError")
               /\ UNCHANGED <<loc, store, hist>>
          ELSE /\ store' = [store EXCEPT ![r] = st]
               /\ hist' = [hist EXCEPT ![r] = Append(@, Ev("save_root", 0, 0))]
               /\ IF \A i \in 1..B : HasNode(st, Key(l.sessions[i], 0, RootAction))
                  THEN /\ loc' = [loc EXCEPT
                             ![r].depth = [i \in 1..B |-> l.depth[i] + 1],
                             ![r].parents = [i \in 1..B |->
                                               Key(l.sessions[i], 0, RootAction)]]
                       /\ pc' = [pc EXCEPT ![r] = "Persisting"]
                       /\ UNCHANGED err
                  ELSE /\ Raise(r, "NotFoundError")
                       /\ loc' = [loc EXCEPT ![r].depth = [i \in 1..B |-> l.depth[i] + 1]]
    /\ UNCHANGED <<genvars, topo, nreq, call, msg, store0, ret>>

ChildNodes(l, A, j) ==
    LET B == Len(l.tokens)
    IN NewNodes(l.sessions, l.depth, l.lens, l.parents,
                [i \in 1..B |-> A[i][j]], [i \in 1..B |-> <<>>])

\* the loop of lines 304-306 from column j on: the store after it, and
\* whether a save raised
RECURSIVE SaveColumns(_, _, _, _)
SaveColumns(st, l, A, j) ==
    IF j > l.top_k THEN [store |-> st, ok |-> TRUE, saved |-> j - 1]
    ELSE LET nodes == ChildNodes(l, A, j)
         IN IF SaveConflict(st, nodes) THEN [store |-> st, ok |-> FALSE, saved |-> j - 1]
            ELSE SaveColumns(save_kv_cache(st, nodes), l, A, j + 1)

\* lines 304-306: one save per column of output_actions, read as it is now
PersistChildren(r) ==
    /\ pc[r] = "Persisting"
    /\ \E fill \in UninitFills(Len(loc[r].tokens), loc[r].top_k) :
         LET l == loc[r]
             A == Resolve(l.outA, fill)
             res == SaveColumns(store[r], l, A, 1)
         IN /\ store' = [store EXCEPT ![r] = res.store]
            /\ loc' = [loc EXCEPT ![r].outA = A]
            /\ hist' = [hist EXCEPT ![r] =
                          @ \o [j \in 1..res.saved |-> Ev("save_child", j, 0)]]
            /\ IF res.ok
               THEN /\ pc' = [pc EXCEPT ![r] = "BcastActions"]
                    /\ UNCHANGED err
               ELSE Raise(r, "DuplicateNodeError")
    /\ UNCHANGED <<genvars, topo, nreq, call, msg, store0, ret>>

\* the loop is over and the pass is not an init pass: nothing is saved
SkipPersist(r) ==
    /\ pc[r] = "Decoding"
    /\ loc[r].cursor >= loc[r].maxlen
    /\ ~loc[r].init
    /\ pc' = [pc EXCEPT ![r] = "BcastActions"]
    /\ UNCHANGED <<genvars, topo, nreq, call, msg, err, loc, store, store0, hist, ret>>

\* torch.distributed.broadcast blocks until every rank of the group has entered it
InBroadcast(r) == is_pipeline_last_stage(r) \/ is_pipeline_first_stage(r)
AtOrPast(p, where) ==
    \/ pc[p] = where
    \/ where = "BcastActions" /\ pc[p] \in {"BcastPolicy", "Done"}
    \/ where = "BcastPolicy" /\ pc[p] = "Done"
\* mutant of broadcast: the receiver keeps its own tensor
broadcast_keepOwn(r, own, src) == own

\* what a broadcast leaves in the tensor of rank r: the content of the source's
broadcast(r, own, src) == IF r = LastRank(r) THEN own ELSE src

\* lines 309-312 and 314-317
BroadcastActions(r) ==
    /\ pc[r] = "BcastActions"
    /\ IF InBroadcast(r)
       THEN /\ \A p \in EmbeddingGroup(r) : AtOrPast(p, "BcastActions")
            /\ loc' = [loc EXCEPT ![r].outA = broadcast(r, @, loc[LastRank(r)].outA)]
            /\ hist' = [hist EXCEPT ![r] = Append(@, Ev("bcast_actions", 0, 0))]
       ELSE UNCHANGED <<loc, hist>>
    /\ pc' = [pc EXCEPT ![r] = "BcastPolicy"]
    /\ UNCHANGED <<genvars, topo, nreq, call, msg, err, store, store0, ret>>

\* lines 313 and 318-319, then lines 197-201
BroadcastPolicy(r) ==
    /\ pc[r] = "BcastPolicy"
    /\ LET P == IF InBroadcast(r)
                THEN broadcast(r, loc[r].outP, loc[LastRank(r)].outP)
                ELSE loc[r].outP
       IN /\ InBroadcast(r) => \A p \in EmbeddingGroup(r) : AtOrPast(p, "BcastPolicy")
          /\ loc' = [loc EXCEPT ![r].outP = P]
          /\ hist' = [hist EXCEPT ![r] =
                        @ \o (IF InBroadcast(r) THEN <<Ev("bcast_policy", 0, 0)>> ELSE <<>>)]
          /\ ret' = [ret EXCEPT ![r] = [action |-> loc[r].outA, policy |-> P]]
    /\ pc' = [pc EXCEPT ![r] = "Done"]
    /\ UNCHANGED <<genvars, topo, nreq, call, msg, err, store, store0>>

Next ==
    \/ NewRequest
    \/ \E r \in Ranks : SearchSend(r)
    \/ \E r \in Ranks : SearchReceive(r)
    \/ \E r \in Ranks : Classify(r)
    \/ \E r \in Ranks : DecodeIter(r)
    \/ \E r \in Ranks : PersistRoot(r)
    \/ \E r \in Ranks : PersistChildren(r)
    \/ \E r \in Ranks : SkipPersist(r)
    \/ \E r \in Ranks : BroadcastActions(r)
    \/ \E r \in Ranks : BroadcastPolicy(r)

Spec == Init /\ [][Next]_vars

(* ====================================================================== *)
(* Properties                                                              *)
(* ====================================================================== *)
Active == nreq > 0
Classified(r) == Did(r, "init") \/ Did(r, "params")
Wrote(r) == Did(r, "save_root") \/ Did(r, "save_child")
Returned(r) == pc[r] \in {"Done", "Error"}
PastDecode(r) == pc[r] \in {"Persisting", "BcastActions", "BcastPolicy", "Done"}
PastPersist(r) == pc[r] \in {"BcastActions", "BcastPolicy", "Done"}
BatchSize == Len(call.sessions)
Scatters(r) == Count(r, "send") + Count(r, "recv")
Broadcasts(r) ==
    LET b == SelectSeq(hist[r], LAMBDA e : e.ev \in {"bcast_actions", "bcast_policy"})
    IN [k \in DOMAIN b |-> b[k].ev]

\* the call has one of the two shapes, names a strategy, runs on an allowed
\* model configuration and asks for no more actions than the vocabulary has
WellFormed ==
    /\ Active
    /\ call.strategy
    /\ ConfigAsserts(call.cfg)
    /\ call.top_k <= VocabSize
\* a root request for sessions no rank holds a node of
FreshSessions ==
    \A r \in Ranks : \A n \in store0[r] :
        \A i \in DOMAIN call.sessions : n.session # call.sessions[i]
ValidRoot == WellFormed /\ IsRootShape(call) /\ FreshSessions
\* a continuation request whose nodes every rank holds
ValidCont ==
    /\ WellFormed
    /\ IsContShape(call)
    /\ \A r \in Ranks : ParamsFound(store0[r], call)
\* clip_max_len leaves 1 + max(context_lengths) of the request as it is
NoClip ==
    LET m == 1 + SeqMax([i \in DOMAIN call.inputs |-> Len(call.inputs[i])])
    IN clip_max_len(m) = m

\* a rank waits in a collective that a rank of the group will never enter
Stuck(r) ==
    \/ /\ pc[r] = "Scatter"
       /\ r # Driver
       /\ call.strategy
       /\ pc[Driver] = "Error"
    \/ /\ pc[r] \in {"BcastActions", "BcastPolicy"}
       /\ InBroadcast(r)
       /\ \E p \in EmbeddingGroup(r) : pc[p] = "Error"

(* ------------------------------- C1 ----------------------------------- *)
\* C1: a rank takes the root-initialization path (inference_strategy.init,
\* forward steps, the root save) exactly when the request has the root shape;
\* a request of the continuation shape takes the continuation path
\* (compute_inference_params, no save) on every rank, whatever its depths.
C1_ClassifiedByShape ==
    Active =>
      \A r \in Ranks :
        /\ Classified(r) => (Did(r, "init") <=> IsRootShape(call))
        /\ IsContShape(call) => ~Did(r, "init") /\ ~Did(r, "fwd") /\ ~Wrote(r)

(* ------------------------------- C2 ----------------------------------- *)
\* C2: for a valid request no rank is left waiting in a collective, and a rank
\* that has left search() has done the scatter exactly once (the driving rank
\* sending, the others receiving) and, on the first and last pipeline stage,
\* the two result broadcasts once each, actions before policy.
C2_CollectivesBalanced ==
    (ValidRoot \/ ValidCont) =>
      \A r \in Ranks :
        /\ ~Stuck(r)
        /\ Returned(r) =>
             /\ Scatters(r) = 1
             /\ Did(r, "send") <=> r = Driver
             /\ Broadcasts(r) = IF InBroadcast(r)
                                THEN <<"bcast_actions", "bcast_policy">> ELSE <<>>

(* ------------------------------- C3 ----------------------------------- *)
\* C3: a request with both shapes at once, or with neither, never reaches
\* send_generate_info: the driving rank leaves search() with an assertion
\* error, and no rank runs a forward step or writes its TreeStore for it.
C3_MalformedRejected ==
    (Active /\ call.strategy /\ ~ValidShape(call)) =>
      /\ ~msg.sent
      /\ ~Did(Driver, "send")
      /\ pc[Driver] # "Scatter" => pc[Driver] = "Error" /\ err[Driver] = "AssertionError"
      /\ \A r \in Ranks :
           ~Did(r, "fwd") /\ ~Did(r, "prep") /\ ~Wrote(r) /\ store[r] = store0[r]
\* the driving rank has rejected a malformed request
C3_Witness ==
    /\ Active /\ call.strategy /\ ~ValidShape(call)
    /\ pc[Driver] = "Error"

(* ------------------------------- C4 ----------------------------------- *)
\* C4: for a valid continuation request whose nodes exist, no rank leaves
\* search() with an error: the decode pass completes, and a rank that is done
\* returns a Frontier of batch_size rows of top_k entries.  Stated for the
\* requests that name nodes below the root (depth >= 1); the root's own key
\* is the case of C1.
BelowRoot == \A i \in DOMAIN call.depth : call.depth[i] >= 1
C4_ContinuationCompletes ==
    (ValidCont /\ BelowRoot) =>
      \A r \in Ranks :
        /\ pc[r] # "Error"
        /\ ~Stuck(r)
        /\ pc[r] = "Done" =>
             /\ Len(ret[r].action) = BatchSize /\ Len(ret[r].policy) = BatchSize
             /\ \A i \in 1..BatchSize :
                  Len(ret[r].action[i]) = call.top_k /\ Len(ret[r].policy[i]) = call.top_k

(* ------------------------------- C5 ----------------------------------- *)
\* the actions of the depth-1 children rank r holds for session s
ChildActions(r, s) == { n.action : n \in { m \in store[r] : m.session = s /\ m.depth = 1 } }
RowSet(row) == { row[j] : j \in DOMAIN row }
\* C5: for a root request, on every rank that is past Persisting the children
\* of each session are the entries of the row the terminal pipeline stage
\* computed for that session.  Stated for the requests no prompt of which is
\* clipped, where the terminal stage writes every row.
C5_SameChildrenEverywhere ==
    (ValidRoot /\ NoClip) =>
      \A r \in Ranks :
        (PastPersist(r) /\ PastPersist(LastRank(r))) =>
          \A i \in 1..BatchSize :
            ChildActions(r, call.sessions[i]) = RowSet(loc[LastRank(r)].outA[i])

(* ------------------------------- C6 ----------------------------------- *)
NodesAt(r, s, d) == { n \in store[r] : n.session = s /\ n.depth = d }
\* C6: after a valid root request with top_k = K every rank's TreeStore holds,
\* for each session of the batch, one node at depth 0 (action -1, no parent)
\* and K nodes at depth 1, whose actions are the top-K vocabulary ids of the
\* session's last-position logits.
C6_RootAndKChildren ==
    (ValidRoot /\ NoClip) =>
      \A r \in Ranks :
        PastPersist(r) =>
          \A i \in 1..BatchSize :
            LET s == call.sessions[i]
                top == RowFrontier(loc[r].tokens[i], loc[r].lens[i], call.top_k).actions
            IN /\ Cardinality(NodesAt(r, s, 0)) = 1
               /\ \A n \in NodesAt(r, s, 0) : n.action = RootAction /\ n.parent = NoParent
               /\ Cardinality(NodesAt(r, s, 1)) = call.top_k
               /\ ChildActions(r, s) = RowSet(top)

(* ------------------------------- C7 ----------------------------------- *)
\* C7: the Frontier a first-stage rank (the driving rank among them) returns
\* is, element for element, the Frontier the terminal pipeline stage of its
\* pipeline holds for the request.
C7_ReturnedIsTerminalFrontier ==
    \A r \in Ranks :
      (pc[r] = "Done" /\ is_pipeline_first_stage(r)) =>
        /\ ret[r].action = loc[LastRank(r)].outA
        /\ ret[r].policy = loc[LastRank(r)].outP
\* a first-stage rank that is not a terminal-stage rank has returned the
\* Frontier of a root request
C7_Witness ==
    /\ Active /\ IsRootShape(call)
    /\ topo.pp > 1
    /\ pc[Driver] = "Done"
    /\ \A i \in 1..BatchSize : \A j \in 1..call.top_k : ret[Driver].action[i][j] # Uninit

(* ------------------------------- C8 ----------------------------------- *)
NonIncreasing(row) == \A j \in DOMAIN row : \A k \in DOMAIN row : j < k => row[j] >= row[k]
\* the Frontier rank r returned has batch_size rows of top_k entries, every
\* row is the top-k selection made at the row's own context length, and every
\* policy row is non-increasing
FrontierFromTopK(r) ==
    /\ Len(ret[r].action) = BatchSize /\ Len(ret[r].policy) = BatchSize
    /\ \A i \in 1..BatchSize :
         LET f == RowFrontier(loc[r].tokens[i], loc[r].lens[i], call.top_k)
         IN /\ Len(ret[r].action[i]) = call.top_k /\ Len(ret[r].policy[i]) = call.top_k
            /\ ret[r].action[i] = f.actions
            /\ ret[r].policy[i] = f.probs
            /\ \A j \in 1..call.top_k : ret[r].policy[i][j] >= 0
            /\ NonIncreasing(ret[r].policy[i])
C9_OversizedTopKRejected ==
    (Active /\ call.strategy /\ ConfigAsserts(call.cfg) /\ ValidShape(call)
       /\ call.top_k > VocabSize) =>
      \A r \in Ranks :
        ~Did(r, "fwd") /\ ~Wrote(r) /\ store[r] = store0[r] /\ pc[r] # "Done"

(* ------------------------------- C10 ---------------------------------- *)
MissingOn(r) == ~ParamsFound(store0[r], call)
\* C10: a continuation request naming a (session, depth, action) a rank holds
\* no node for leaves that rank's TreeStore as it was, and the rank leaves
\* search() with a not-found error.
C10_MissingNodeNoMutation ==
    (Active /\ call.strategy /\ IsContShape(call)) =>
      \A r \in Ranks :
        MissingOn(r) =>
          /\ store[r] = store0[r]
          /\ ~Wrote(r)
          /\ Returned(r) => err[r] = "NotFoundError"

(* ------------------------------- C11 ---------------------------------- *)
ResultBroadcast(r) == Did(r, "bcast_actions") \/ Did(r, "bcast_policy")
\* C11: for a request on a model configuration with sequence parallelism or an
\* activation-checkpointing granularity or method set, no rank calls
\* prepare_batch_at_step or forward_step, writes its TreeStore or enters a
\* result broadcast, no rank returns a Frontier, and a rank that has entered
\* sample_sequence_batch has left search() with the assertion error.
C11_ConfigRejectedBeforeCompute ==
    (Active /\ call.strategy /\ ValidShape(call) /\ call.cfg \in BadCfgs) =>
      \A r \in Ranks :
        /\ ~Did(r, "prep") /\ ~Did(r, "fwd")
        /\ ~Wrote(r) /\ store[r] = store0[r]
        /\ ~ResultBroadcast(r)
        /\ pc[r] \notin {"Decoding", "Persisting", "BcastActions", "BcastPolicy", "Done"}
        /\ Classified(r) => pc[r] = "Error" /\ err[r] = "AssertionError"
\* every rank of a two-stage pipeline has failed the sequence_parallel assert
\* of a root request
C11_Witness ==
    /\ Active /\ IsRootShape(call) /\ call.cfg.sequence_parallel
    /\ topo.pp > 1
    /\ \A r \in Ranks : Did(r, "init") /\ err[r] = "AssertionError"

(* ------------------------------- C12 ---------------------------------- *)
RootKey(s) == Key(s, 0, RootAction)
HadRoot(r, s) == HasNode(store0[r], RootKey(s))
\* the root nodes the current root request asks for
RequestRoots ==
    NewNodes(call.sessions, [i \in 1..BatchSize |-> 0],
             [i \in 1..BatchSize |-> Len(call.inputs[i])],
             [i \in 1..BatchSize |-> NoParent], [i \in 1..BatchSize |-> RootAction],
             call.inputs)
\* a session of the request already has a root with another payload on rank r
OtherPayload(r) ==
    \E n \in RequestRoots : \E m \in store0[r] : NodeKey(m) = NodeKey(n) /\ m # n
\* every session of the request already has this very root on rank r
SamePayload(r) == RequestRoots \subseteq store0[r]
Distinct(row) == \A j \in DOMAIN row : \A k \in DOMAIN row : j # k => row[j] # row[k]
\* C13: on every rank a key (session, depth, action) holds at most one node,
\* and the top_k children a root request has just registered for one session
\* have pairwise distinct actions: the top_k saves have created top_k nodes.
\* Stated for the root requests no prompt of which is clipped.
C13_KeysCreatedOnce ==
    \A r \in Ranks :
      /\ \A n \in store[r] : \A m \in store[r] : NodeKey(m) = NodeKey(n) => m = n
      /\ (ValidRoot /\ NoClip /\ pc[r] = "BcastActions") =>
           \A i \in 1..BatchSize :
             /\ Distinct(loc[r].outA[i])
             /\ Cardinality(NodesAt(r, call.sessions[i], 1)) = call.top_k

(* ------------------------------- C14 ---------------------------------- *)
\* looking (s, 1, a) up on rank r finds a child of the root the current
\* request created for s
ChildOfRequestRoot(r, s, a) ==
    /\ HasNode(store[r], Key(s, 1, a))
    /\ HasNode(store[r], RootKey(s))
    /\ LET child == GetNode(store[r], Key(s, 1, a))
           root == GetNode(store[r], RootKey(s))
       IN /\ child.parent # NoParent
          /\ HasNode(store[r], child.parent)
          /\ GetNode(store[r], child.parent) = root
          /\ root \in RequestRoots
\* C14: after a root request, on every rank, each action of the Frontier row
\* of a session is the action of a depth-1 node of that session whose parent
\* is the root node the request created for the session.  Stated for the root
\* requests no prompt of which is clipped.
C14_ChildrenRoundTrip ==
    (ValidRoot /\ NoClip) =>
      \A r \in Ranks :
        (PastPersist(r) /\ PastPersist(LastRank(r))) =>
          \A i \in 1..BatchSize :
            \A a \in RowSet(loc[LastRank(r)].outA[i]) :
              ChildOfRequestRoot(r, call.sessions[i], a)

(* ------------------------------- C15 ---------------------------------- *)
SaveEvents == {"save_root", "save_child"}
\* in what rank r has done, every event named in first comes before every
\* event named in then
Before(r, first, then) ==
    \A j \in DOMAIN hist[r] : \A k \in DOMAIN hist[r] :
      (hist[r][j].ev \in first /\ hist[r][k].ev \in then) => j < k
\* C15: a request of the continuation shape calls save_kv_cache on no rank and
\* leaves every rank's TreeStore as it was; a rank's TreeStore differs from
\* what it was when the request was made only if the rank has saved; and on a
\* rank that saves, the root save comes before every child save and every
\* save after the last iteration of the decode loop.
C15_WritesOnlyInPersisting ==
    (Active /\ call.strategy) =>
      \A r \in Ranks :
        /\ IsContShape(call) => ~Wrote(r) /\ store[r] = store0[r]
        /\ store[r] # store0[r] => Wrote(r)
        /\ Wrote(r) => loc[r].init /\ loc[r].cursor >= loc[r].maxlen
        /\ Did(r, "save_child") => Did(r, "save_root")
        /\ Before(r, {"save_root"}, {"save_child"})
        /\ Before(r, {"prep", "fwd", "write"}, SaveEvents)

(* ------------------------------- C16 ---------------------------------- *)
\* rank r has passed the asserts of sample_sequence_batch and set the loop up
EnteredLoop(r) == Classified(r) /\ ~(pc[r] = "Error" /\ err[r] = "AssertionError")
\* ... and is no longer in the loop
LeftLoop(r) == EnteredLoop(r) /\ pc[r] # "Decoding"
\* maxlen - min(context_lengths), maxlen = clip_max_len(1 + max(context_lengths))
LoopBound(r) == clip_max_len(1 + SeqMax(loc[r].lens)) - SeqMin(loc[r].lens)
\* C16: on every rank the decode loop runs at most maxlen - min(context_lengths)
\* iterations, and a rank that has left the loop has started and finished
\* exactly that many: exactly one when the starting cursor is maxlen - 1.
C16_LoopIterations ==
    (WellFormed /\ ValidShape(call)) =>
      \A r \in Ranks :
        /\ EnteredLoop(r) =>
             /\ loc[r].maxlen = clip_max_len(1 + SeqMax(loc[r].lens))
             /\ loc[r].counter <= LoopBound(r)
             /\ Count(r, "prep") <= LoopBound(r)
             /\ loc[r].cursor = SeqMin(loc[r].lens) + loc[r].counter
        /\ LeftLoop(r) =>
             /\ loc[r].counter = LoopBound(r)
             /\ Count(r, "prep") = LoopBound(r)
             /\ SeqMin(loc[r].lens) = loc[r].maxlen - 1 => loc[r].counter = 1

(* ------------------------------- C17 ---------------------------------- *)
\* the cursors of the iterations in which rank r wrote row i
WriteCursors(r, i) ==
    { k \in DOMAIN hist[r] : hist[r][k].ev = "write" /\ hist[r][k].a = i }
RowUnwritten(row) == \A j \in DOMAIN row : row[j] = Uninit
\* C17: on a terminal-stage rank, row i of the output Frontier is written only
\* in the iteration whose cursor is context_lengths[i] and at most once, it is
\* unwritten until the cursor has passed context_lengths[i] and holds the
\* selection of that iteration from then on, and when the loop is left and
\* clip_max_len has not lowered maxlen every row has been written exactly once.
C17_RowWrittenOnce ==
    (WellFormed /\ ValidShape(call)) =>
      \A r \in Ranks :
        (EnteredLoop(r) /\ is_pipeline_last_stage(r)) =>
          \A i \in DOMAIN loc[r].lens :
            /\ \A k \in WriteCursors(r, i) : hist[r][k].b = loc[r].lens[i]
            /\ Cardinality(WriteCursors(r, i)) <= 1
            /\ (pc[r] = "Decoding" /\ loc[r].cursor <= loc[r].lens[i]) =>
                 RowUnwritten(loc[r].outA[i]) /\ RowUnwritten(loc[r].outP[i])
            /\ (pc[r] = "Decoding" /\ WriteCursors(r, i) # {}) =>
                 LET f == RowFrontier(loc[r].tokens[i], loc[r].lens[i], loc[r].top_k)
                 IN loc[r].outA[i] = f.actions /\ loc[r].outP[i] = f.probs
            /\ (LeftLoop(r) /\ loc[r].maxlen = 1 + SeqMax(loc[r].lens)) =>
                 Cardinality(WriteCursors(r, i)) = 1

(* ------------------------------- C18 ---------------------------------- *)
Calls_of(r, name) == SelectSeq(hist[r], LAMBDA e : e.ev = name)
\* C18: a pass is a root-initialization pass when sample_sequence_batch runs
\* with init set and a continuation pass otherwise.  On every rank the k-th
\* call of prepare_batch_at_step has step counter k - 1 and cursor
\* min(context_lengths) + k - 1; on a root-initialization pass every call of
\* prepare_batch_at_step is followed by one call of forward_step for the same
\* iteration and there is no other; on a continuation pass forward_step is
\* never called.
C18_ForwardOncePerInitIteration ==
    \A r \in Ranks :
      LET P == Calls_of(r, "prep")
          F == Calls_of(r, "fwd")
      IN /\ \A k \in DOMAIN P :
              /\ P[k].b = k - 1
              /\ P[k].a = SeqMin(loc[r].lens) + k - 1
         /\ Len(P) \in {loc[r].counter, loc[r].counter + 1}
         /\ pc[r] # "Error" => Len(P) = loc[r].counter
         /\ (P # <<>> /\ loc[r].init) =>
              /\ Len(F) = Len(P)
              /\ \A k \in DOMAIN P : F[k].a = P[k].a /\ F[k].b = P[k].b
              /\ \A k \in DOMAIN hist[r] :
                   hist[r][k].ev = "prep" => hist[r][k + 1].ev = "fwd"
         /\ (P = <<>> \/ ~loc[r].init) => F = <<>>
\* a rank has finished the second iteration of a root-initialization pass
C18_Witness ==
    \E r \in Ranks :
      /\ loc[r].init
      /\ loc[r].counter = 2
      /\ Count(r, "fwd") = 2

(* ------------------------------- C19 ---------------------------------- *)
VocabIds == 0..(VocabSize - 1)
\* C19: when top_k is at most the true vocabulary size, every action the
\* terminal pipeline stage has written into a row of the Frontier is a
\* vocabulary id below the true vocabulary size, and so is every action of
\* that row in the Frontier a rank returns.
C19_NoPaddingSlotSelected ==
    (Active /\ call.top_k <= VocabSize) =>
      \A r \in Ranks :
        \A i \in DOMAIN loc[LastRank(r)].lens :
          WriteCursors(LastRank(r), i) # {} =>
            /\ RowSet(loc[LastRank(r)].outA[i]) \subseteq VocabIds
            /\ (pc[r] = "Done" /\ InBroadcast(r)) =>
                 RowSet(ret[r].action[i]) \subseteq VocabIds
\* the driving rank of a two-stage pipeline has returned a row for which a
\* padding slot has a higher logit than a real vocabulary id
C19_Witness ==
    /\ Active /\ call.top_k = VocabSize
    /\ topo.pp > 1
    /\ pc[Driver] = "Done"
    /\ \E i \in DOMAIN loc[LastRank(Driver)].lens :
         /\ WriteCursors(LastRank(Driver), i) # {}
         /\ LET l == loc[LastRank(Driver)]
                lg == ForwardLogits(l.tokens[i], l.lens[i])
            IN \E v \in VocabIds : lg[VocabSize] > lg[v]

(* ------------------------------- C20 ---------------------------------- *)
PastClassifying(r) == pc[r] \notin {"AwaitingRequest", "Scatter", "Classifying"}
\* C20: for a valid request (a root request, or a continuation request whose
\* nodes every rank holds), any two ranks that have classified it have taken
\* the same path (both inference_strategy.init or both
\* compute_inference_params), one does not fail the lookup the other passes,
\* they start the loop at the same cursor with the same maxlen, and once both
\* have left the loop they have executed the same number of iterations.
C20_RanksAgree ==
    (WellFormed /\ (IsRootShape(call) \/ ValidCont)) =>
      \A r \in Ranks : \A q \in Ranks :
        /\ (Classified(r) /\ Classified(q)) => (Did(r, "init") <=> Did(q, "init"))
        /\ (PastClassifying(r) /\ PastClassifying(q)) => (Classified(r) <=> Classified(q))
        /\ (EnteredLoop(r) /\ EnteredLoop(q)) =>
             /\ SeqMin(loc[r].lens) = SeqMin(loc[q].lens)
             /\ loc[r].maxlen = loc[q].maxlen
        /\ (LeftLoop(r) /\ LeftLoop(q)) => loc[r].counter = loc[q].counter

(* ------------------------------- C21 ---------------------------------- *)
\* C21: for a call without a strategy, nothing is sent or received, no rank
\* classifies the request, prepares a batch, runs a forward step or writes its
\* TreeStore, and a rank that has left search() has left it with ValueError.
C21_NoStrategyValueError ==
    (Active /\ ~call.strategy) =>
      /\ ~msg.sent
      /\ \A r \in Ranks :
           /\ ~Did(r, "send") /\ ~Did(r, "recv")
           /\ ~Classified(r) /\ ~Did(r, "prep") /\ ~Did(r, "fwd")
           /\ ~Wrote(r) /\ store[r] = store0[r]
           /\ pc[r] \in {"Scatter", "Error"}
           /\ pc[r] = "Error" => err[r] = "ValueError"
\* both ranks of a two-rank group have raised ValueError
C21_Witness ==
    /\ Active /\ ~call.strategy
    /\ Cardinality(Ranks) > 1
    /\ \A r \in Ranks : pc[r] = "Error" /\ err[r] = "ValueError"

(* ====================================================================== *)
(* text_generation_utils.py: TrackLengthGPTModelTextGenerationStrategy      *)
(* ====================================================================== *)
\* Every rank of the group constructs its own strategy for one generation and
\* calls end_of_generation_condition as generation goes; get_lengths is called
\* by every rank once generation is over.
MaxWidth == EncoderSeqLength + 1      \* the largest tokens.size(1) of a call
ContextLengthVectors == UNION { [1..B -> 1..EncoderSeqLength] : B \in Sessions }

\* torch.full_like(t, fill_value=v)
full_like(t, v) == [i \in DOMAIN t |-> v]

\* __init__, lines 35-39
TrackLength_init(context_lengths, max_length) ==
    [made |-> TRUE, context_lengths |-> context_lengths, max_length |-> max_length,
     end_idx |-> full_like(context_lengths, -1)]

\* every rank constructs the strategy from the same batch
Construct ==
    /\ \A r \in Ranks : ~strat[r].made
    /\ \E cl \in ContextLengthVectors : \E ml \in 1..MaxGenLength :
         strat' = [r \in Ranks |-> TrackLength_init(cl, ml)]
    /\ UNCHANGED <<topo, searchvars, eog, lengths, tok>>

\* mutant of UpdateEndIdx: an end index recorded before is overwritten
UpdateEndIdx_overwrite(st, width, is_end) ==
    LET context_length == width - 1
    IN [i \in DOMAIN st.end_idx |->
          IF st.context_lengths[i] <= context_length /\ is_end[i]
          THEN context_length ELSE st.end_idx[i]]

\* lines 51-57: context_length = tokens.size(1) - 1, started, and the
\* torch.where that records the end of the rows ending right now
UpdateEndIdx(st, width, is_end) ==
    LET context_length == width - 1
        started == [i \in DOMAIN st.end_idx |-> st.context_lengths[i] <= context_length]
    IN [i \in DOMAIN st.end_idx |->
          IF started[i] /\ is_end[i] /\ st.end_idx[i] < 0
          THEN context_length ELSE st.end_idx[i]]

\* mutant of end_of_generation_condition: the batch size is compared after
\* the end indices have been updated
end_of_generation_condition_checkLate(st, batch, width, is_end) ==
    LET upd == [i \in DOMAIN st.end_idx |->
                  IF /\ i \in DOMAIN is_end
                     /\ st.context_lengths[i] <= width - 1
                     /\ is_end[i]
                     /\ st.end_idx[i] < 0
                  THEN width - 1 ELSE st.end_idx[i]]
    IN IF batch # Len(st.context_lengths)
       THEN [end_idx |-> upd, raised |-> "RuntimeError", returned |-> <<>>]
       ELSE [end_idx |-> upd, raised |-> "none", returned |-> is_end]

\* lines 44-58 for a token batch of `batch` rows and `width` columns, is_end
\* being what the parent strategy's end_of_generation_condition returned
end_of_generation_condition(st, batch, width, is_end) ==
    IF batch # Len(st.context_lengths)
    THEN [end_idx |-> st.end_idx, raised |-> "RuntimeError", returned |-> <<>>]
    ELSE [end_idx |-> UpdateEndIdx(st, width, is_end), raised |-> "none",
          returned |-> is_end]

\* one call of end_of_generation_condition on rank r
EndOfGeneration(r) ==
    /\ strat[r].made
    /\ lengths[r].at = "idle"
    /\ \E batch \in Sessions : \E width \in 1..MaxWidth :
         \E is_end \in [1..batch -> BOOLEAN] :
           LET out == end_of_generation_condition(strat[r], batch, width, is_end)
           IN /\ strat' = [strat EXCEPT ![r].end_idx = out.end_idx]
              /\ eog' = [made |-> TRUE, rank |-> r, batch |-> batch, width |-> width,
                         is_end |-> is_end, before |-> strat[r].end_idx,
                         raised |-> out.raised, returned |-> out.returned]
    /\ UNCHANGED <<topo, searchvars, lengths, tok>>

\* mutant of ComputeLengths: the token that ended generation is not counted
ComputeLengths_noEndToken(st) ==
    [i \in DOMAIN st.end_idx |->
       IF st.end_idx[i] >= 0 THEN st.end_idx[i]
       ELSE st.context_lengths[i] + st.max_length]

\* line 71
ComputeLengths(st) ==
    [i \in DOMAIN st.end_idx |->
       IF st.end_idx[i] >= 0 THEN st.end_idx[i] + 1
       ELSE st.context_lengths[i] + st.max_length]

\* broadcast_2d_tensor_within_pp: every rank of the pipeline gets the tensor
\* of the pipeline's last stage
broadcast_2d_tensor_within_pp(r, own, last) == IF r = LastRank(r) THEN own ELSE last

\* lines 69-72: rank r enters get_lengths; only the last stage has lengths
GetLengthsEnter(r) ==
    /\ strat[r].made
    /\ lengths[r].at = "idle"
    /\ lengths' = [lengths EXCEPT ![r] =
                     [at |-> "broadcast",
                      value |-> IF is_pipeline_last_stage(r)
                                THEN ComputeLengths(strat[r]) ELSE <<>>]]
    /\ UNCHANGED <<topo, searchvars, strat, eog, tok>>

\* lines 73-74: the broadcast completes once the last stage has entered it
GetLengthsReturn(r) ==
    /\ lengths[r].at = "broadcast"
    /\ lengths[LastRank(r)].at \in {"broadcast", "returned"}
    /\ lengths' = [lengths EXCEPT ![r] =
                     [at |-> "returned",
                      value |-> broadcast_2d_tensor_within_pp(
                                    r, lengths[r].value, lengths[LastRank(r)].value)]]
    /\ UNCHANGED <<topo, searchvars, strat, eog, tok>>

TrackLengthNext ==
    \/ Construct
    \/ \E r \in Ranks : EndOfGeneration(r)
    \/ \E r \in Ranks : GetLengthsEnter(r)
    \/ \E r \in Ranks : GetLengthsReturn(r)

TrackLengthSpec == Init /\ [][TrackLengthNext]_vars

(* ------------------------------- C22 ---------------------------------- *)
\* the end indices of the strategy the last call was made on
EndIdxNow == strat[eog.rank].end_idx
\* C22: after a call of end_of_generation_condition that returned, an end
\* index differs from what it was before the call only for a sample that has
\* started (context length <= tokens.size(1) - 1), for which the parent
\* strategy reported the end, and which had no end index; it is then the
\* current position.  An end index that was >= 0 is what it was, and the call
\* returned the parent strategy's is_end.
C22_EndIdxSetOnce ==
    (eog.made /\ eog.raised = "none") =>
      /\ eog.returned = eog.is_end
      /\ \A i \in DOMAIN EndIdxNow :
           /\ EndIdxNow[i] # eog.before[i] =>
                /\ strat[eog.rank].context_lengths[i] <= eog.width - 1
                /\ eog.is_end[i]
                /\ eog.before[i] < 0
                /\ EndIdxNow[i] = eog.width - 1
           /\ eog.before[i] >= 0 => EndIdxNow[i] = eog.before[i]
\* a call in which one sample's end was recorded while another sample, ended
\* at an earlier position, was reported ended again
C22_Witness ==
    /\ eog.made /\ eog.raised = "none"
    /\ \E i \in DOMAIN EndIdxNow : \E j \in DOMAIN EndIdxNow :
         /\ eog.before[i] < 0 /\ EndIdxNow[i] = eog.width - 1
         /\ eog.before[j] >= 0 /\ eog.before[j] < eog.width - 1 /\ eog.is_end[j]

(* ------------------------------- C23 ---------------------------------- *)
\* C23: what get_lengths has returned on rank r is, for each sample of the
\* strategy of the last stage of r's pipeline, end index + 1 when an end was
\* recorded and context length + max_length when none was; every rank of a
\* pipeline that has returned has returned the same values.
C23_LengthsFromLastStage ==
    \A r \in Ranks :
      lengths[r].at = "returned" =>
        LET st == strat[LastRank(r)]
        IN /\ Len(lengths[r].value) = Len(st.context_lengths)
           /\ \A i \in DOMAIN st.context_lengths :
                /\ st.end_idx[i] >= 0 => lengths[r].value[i] = st.end_idx[i] + 1
                /\ st.end_idx[i] < 0 =>
                     lengths[r].value[i] = st.context_lengths[i] + st.max_length
           /\ lengths[LastRank(r)].at = "returned" =>
                lengths[r].value = lengths[LastRank(r)].value
\* the first-stage rank of a two-stage pipeline has returned the lengths of a
\* batch with one sample that ended and one that did not, its own strategy
\* having recorded other end indices than the last stage's
C23_Witness ==
    /\ topo.pp > 1
    /\ lengths[Driver].at = "returned"
    /\ strat[Driver].end_idx # strat[LastRank(Driver)].end_idx
    /\ \E i \in DOMAIN lengths[Driver].value : \E j \in DOMAIN lengths[Driver].value :
         /\ strat[LastRank(Driver)].end_idx[i] >= 0
         /\ strat[LastRank(Driver)].end_idx[j] < 0

(* ------------------------------- C24 ---------------------------------- *)
\* C24: a call of end_of_generation_condition with a token batch whose size is
\* not that of the context_lengths given to the constructor has raised
\* RuntimeError, has returned nothing, and has left every end index of the
\* strategy as it was.
C24_BatchMismatchRaises ==
    (eog.made /\ eog.batch # Len(strat[eog.rank].context_lengths)) =>
      /\ eog.raised = "RuntimeError"
      /\ eog.returned = <<>>
      /\ EndIdxNow = eog.before
\* a call with a batch of another size, on a strategy with a sample that has
\* started and has no end index, the parent strategy reporting its end
C24_Witness ==
    /\ eog.made /\ eog.raised = "RuntimeError"
    /\ \E i \in (DOMAIN eog.is_end) \cap (DOMAIN eog.before) :
         /\ eog.is_end[i]
         /\ strat[eog.rank].context_lengths[i] <= eog.width - 1
         /\ eog.before[i] < 0

(* ====================================================================== *)
(* text_generation_utils.py: pad_batch and tokenize_batch                   *)
(* ====================================================================== *)
\* A sentence is a sequence of characters 0..1; the tokenizer gives every
\* character an id of its own above the special ids.
Chars == 0..1
SentencesOfLen(n) == [1..n -> Chars]
Sentences == UNION { SentencesOfLen(n) : n \in 0..MaxSentenceLen }
SentenceBatches == UNION { [1..B -> Sentences] : B \in Sessions }
\* max_len from "nothing fits" to "everything fits but BOS and EOS together"
MaxLens == 0..(MaxSentenceLen + 1)

\* tokenizer.text_to_ids
text_to_ids(sentence) == [k \in DOMAIN sentence |-> sentence[k] + 2]

\* lines 100-109
tokenize(sentence, add_BOS, add_EOS) ==
    (IF add_BOS THEN <<BosId>> ELSE <<>>) \o text_to_ids(sentence)
        \o (IF add_EOS THEN <<EosId>> ELSE <<>>)

\* the slice x[:n]
SliceTo(x, n) ==
    IF n >= 0 THEN SubSeq(x, 1, Min2(Len(x), n))
    ELSE SubSeq(x, 1, IF Len(x) + n > 0 THEN Len(x) + n ELSE 0)

\* mutant of pad_batch: the rows are not extended
pad_batch_noPad(batch, pad_id) ==
    [batch |-> batch, context_lengths |-> [i \in DOMAIN batch |-> Len(batch[i])]]

\* lines 77-87
pad_batch(batch, pad_id) ==
    LET max_context_length == SeqMax([i \in DOMAIN batch |-> Len(batch[i])])
    IN [batch |-> [i \in DOMAIN batch |->
                     batch[i] \o [k \in 1..(max_context_length - Len(batch[i])) |-> pad_id]],
        context_lengths |-> [i \in DOMAIN batch |-> Len(batch[i])]]

\* tokenize_batch(tokenizer, sentences, max_len, add_BOS, add_EOS), lines 90-124
TokenizeBatch(sentences, max_len, add_BOS, add_EOS) ==
    LET context_tokens == [i \in DOMAIN sentences |-> tokenize(sentences[i], add_BOS, add_EOS)]
        exceeded == [i \in DOMAIN sentences |-> Len(context_tokens[i]) > max_len]
        cut == [i \in DOMAIN sentences |-> SliceTo(context_tokens[i], max_len)]
        padded == pad_batch(cut, EosId)
    IN [tokens |-> padded.batch, context_lengths |-> padded.context_lengths,
        exceeded |-> exceeded]

\* the call of tokenize_batch
Tokenize ==
    /\ ~tok.made
    /\ \E sentences \in SentenceBatches : \E max_len \in MaxLens :
         \E add_BOS \in BOOLEAN : \E add_EOS \in BOOLEAN :
           LET out == TokenizeBatch(sentences, max_len, add_BOS, add_EOS)
           IN tok' = [made |-> TRUE, sentences |-> sentences, max_len |-> max_len,
                      add_BOS |-> add_BOS, add_EOS |-> add_EOS,
                      tokens |-> out.tokens, context_lengths |-> out.context_lengths,
                      exceeded |-> out.exceeded]
    /\ UNCHANGED <<topo, searchvars, strat, eog, lengths>>

TokenizeNext == Tokenize

TokenizeSpec == Init /\ [][TokenizeNext]_vars

(* ------------------------------- C25 ---------------------------------- *)
\* the tokens of sentence i of the last call: its ids with the BOS and EOS
\* the call asked for
TokensOf(i) == tokenize(tok.sentences[i], tok.add_BOS, tok.add_EOS)
\* C25: after tokenize_batch on a batch of sentences with max_len >= 0, every
\* row has the length of the longest sentence's tokens cut to max_len;
\* context_lengths[i] is min(len(tokens_i), max_len); the first
\* context_lengths[i] entries of row i are tokens_i in order and the entries
\* after them are the eos id; exceeded[i] is true exactly when tokens_i has
\* more than max_len tokens.
C25_TokenizeBatchShape ==
    tok.made =>
      LET B == Len(tok.sentences)
          width == SeqMax([i \in 1..B |-> Min2(Len(TokensOf(i)), tok.max_len)])
      IN /\ Len(tok.tokens) = B /\ Len(tok.context_lengths) = B /\ Len(tok.exceeded) = B
         /\ \A i \in 1..B :
              /\ Len(tok.tokens[i]) = width
              /\ tok.context_lengths[i] = Min2(Len(TokensOf(i)), tok.max_len)
              /\ \A k \in 1..width :
                   tok.tokens[i][k] = IF k <= tok.context_lengths[i]
                                      THEN TokensOf(i)[k] ELSE EosId
              /\ tok.exceeded[i] <=> Len(TokensOf(i)) > tok.max_len
\* a batch of two with a BOS added: one sentence is cut to max_len, the other
\* is shorter than the cut one and padded
C25_Witness ==
    /\ tok.made /\ tok.add_BOS
    /\ Len(tok.sentences) = 2
    /\ tok.exceeded[1] /\ ~tok.exceeded[2]
    /\ tok.context_lengths[2] < tok.context_lengths[1]
    /\ tok.context_lengths[2] > 0

====
